---- MODULE Spec2Model ----
(***************************************************************************)
(* Image2Salt: the PlantUML URL payload encoder of src/App.tsx             *)
(* (encode6bit, encode3bytes, encode64, getPlantUMLUrl, SaltPreview).      *)
(*                                                                         *)
(* A JavaScript string is modelled as the sequence of its UTF-16 code      *)
(* units, a Uint8Array as a sequence of integers in 0..255.                *)
(***************************************************************************)
EXTENDS Integers, Sequences, FiniteSets, TLC

VARIABLES
    pc,         \* position of the call under study
    data,       \* encode64: the Uint8Array argument
    r,          \* encode64: the returned string
    code,       \* getPlantUMLUrl: the text that is canonicalized
    cleanCode,  \* getPlantUMLUrl: the local cleanCode (line 52)
    again,      \* the canonicalization of cleanCode itself
    saltCode,   \* SaltPreview: the prop saltCode, a string or null
    failAt,     \* the stage of getPlantUMLUrl that throws, "none" if none does
    call,       \* the outcome of the call of getPlantUMLUrl
    imageFile,      \* App: the selected File, 0 for null, k for the k-th one
    isLoading,      \* App: the state isLoading
    error,          \* App: the state error, a string or null
    elapsedTime,    \* App: the state elapsedTime
    timerRef,       \* App: timerRef.current, 0 for null, else an interval id
    isCancelledRef, \* App: isCancelledRef.current
    fidelity,       \* App: the state fidelity
    selectedModel,  \* App: the state selectedModel
    intervals,      \* the intervals of window.setInterval not yet cleared
    reqs            \* the calls of processConversion and handleRefine so far

appVars ==
    <<imageFile, isLoading, error, elapsedTime, timerRef, isCancelledRef,
      fidelity, selectedModel, intervals, reqs>>

vars ==
    <<pc, data, r, code, cleanCode, again, saltCode, failAt, call, imageFile,
      isLoading, error, elapsedTime, timerRef, isCancelledRef, fidelity,
      selectedModel, intervals, reqs>>

encVars == <<data, r>>

canonVars == <<code, cleanCode, again>>

urlVars == <<saltCode, failAt, call>>

(***************************************************************************)
(* Bounds of the model                                                     *)
(***************************************************************************)
MaxBytes == 5

MaxText == 6

MaxCode == 4

MaxImages == 2

MaxRequests == 3

MaxElapsed == 1

(***************************************************************************)
(* JavaScript integer operators on the non-negative values used here       *)
(***************************************************************************)
RECURSIVE BitAnd(_, _)
BitAnd(a, b) ==
    IF a = 0 \/ b = 0 THEN 0
    ELSE (a % 2) * (b % 2) + 2 * BitAnd(a \div 2, b \div 2)

RECURSIVE BitOr(_, _)
BitOr(a, b) ==
    IF a = 0 THEN b
    ELSE IF b = 0 THEN a
    ELSE (IF a % 2 = 1 \/ b % 2 = 1 THEN 1 ELSE 0) + 2 * BitOr(a \div 2, b \div 2)

Shr(a, n) == a \div (2 ^ n)

\* The operands of << in the code are at most 15 and the shifts at most 4, so
\* the 32-bit wrap of JavaScript's << never applies.
Shl(a, n) == a * (2 ^ n)

SeqsUpTo(S, n) == UNION {[1..k -> S] : k \in 0..n}

(***************************************************************************)
(* JavaScript values of type string | null                                 *)
(***************************************************************************)
Null == [null |-> TRUE, str |-> <<>>]

Str(s) == [null |-> FALSE, str |-> s]

\* A guard that tests for null only.
Falsy_nullOnly(v) == v.null

\* !v for a string or null: null and the empty string are falsy.
Falsy(v) == v.null \/ v.str = <<>>

\* The call of getPlantUMLUrl before it has returned.
NoCall == [ret |-> <<>>, thrown |-> FALSE, logged |-> FALSE, stages |-> <<>>]

UrlIdle ==
    /\ saltCode = Null
    /\ failAt = "none"
    /\ call = NoCall

\* The state of App after its first render, src/App.tsx:349-358.
AppIdle ==
    /\ imageFile = 0
    /\ isLoading = FALSE
    /\ error = Null
    /\ elapsedTime = 0
    /\ timerRef = 0
    /\ isCancelledRef = FALSE
    /\ fidelity = 50
    /\ selectedModel = "gemini-3-flash-preview"
    /\ intervals = {}
    /\ reqs = <<>>

(***************************************************************************)
(* encode6bit, src/App.tsx:7-14                                            *)
(***************************************************************************)
\* encode6bit with the last two characters of the alphabet exchanged.
encode6bit_swapped(b) ==
    IF b < 10 THEN <<48 + b>>
    ELSE IF b < 36 THEN <<65 + b - 10>>
    ELSE IF b < 62 THEN <<97 + b - 36>>
    ELSE IF b = 62 THEN <<95>>
    ELSE IF b = 63 THEN <<45>>
    ELSE <<63>>

encode6bit(b) ==
    IF b < 10 THEN <<48 + b>>
    ELSE IF b < 36 THEN <<65 + b - 10>>
    ELSE IF b < 62 THEN <<97 + b - 36>>
    ELSE IF b = 62 THEN <<45>>
    ELSE IF b = 63 THEN <<95>>
    ELSE <<63>>

(***************************************************************************)
(* encode3bytes, src/App.tsx:16-25                                         *)
(***************************************************************************)
\* encode3bytes without the masks on b1 and on the 6-bit groups.
encode3bytes_unmasked(b1, b2, b3) ==
    LET c1 == Shr(b1, 2)
        c2 == BitOr(Shl(b1, 4), Shr(b2, 4))
        c3 == BitOr(Shl(BitAnd(b2, 15), 2), Shr(b3, 6))
        c4 == BitAnd(b3, 63)
    IN  encode6bit(c1) \o encode6bit(c2) \o encode6bit(c3) \o encode6bit(c4)

encode3bytes(b1, b2, b3) ==
    LET c1 == Shr(b1, 2)
        c2 == BitOr(Shl(BitAnd(b1, 3), 4), Shr(b2, 4))
        c3 == BitOr(Shl(BitAnd(b2, 15), 2), Shr(b3, 6))
        c4 == BitAnd(b3, 63)
    IN  encode6bit(BitAnd(c1, 63)) \o encode6bit(BitAnd(c2, 63))
        \o encode6bit(BitAnd(c3, 63)) \o encode6bit(BitAnd(c4, 63))

(***************************************************************************)
(* The two tail branches of encode64, src/App.tsx:32-43                    *)
(***************************************************************************)
\* The two-byte tail without the shift that pads c3 with two zero bits.
encode2bytes_noShift(b1, b2) ==
    LET c1 == Shr(b1, 2)
        c2 == BitOr(Shl(BitAnd(b1, 3), 4), Shr(b2, 4))
        c3 == BitAnd(b2, 15)
    IN  encode6bit(BitAnd(c1, 63)) \o encode6bit(BitAnd(c2, 63))
        \o encode6bit(BitAnd(c3, 63))

encode2bytes(b1, b2) ==
    LET c1 == Shr(b1, 2)
        c2 == BitOr(Shl(BitAnd(b1, 3), 4), Shr(b2, 4))
        c3 == Shl(BitAnd(b2, 15), 2)
    IN  encode6bit(BitAnd(c1, 63)) \o encode6bit(BitAnd(c2, 63))
        \o encode6bit(BitAnd(c3, 63))

encode1byte(b1) ==
    LET c1 == Shr(b1, 2)
        c2 == Shl(BitAnd(b1, 3), 4)
    IN  encode6bit(BitAnd(c1, 63)) \o encode6bit(BitAnd(c2, 63))

(***************************************************************************)
(* encode64, src/App.tsx:27-47.  i is the 0-based loop index of the code,  *)
(* d[i + 1] is data[i].                                                    *)
(***************************************************************************)
RECURSIVE encode64Loop(_, _, _)
encode64Loop(d, i, acc) ==
    IF ~(i < Len(d)) THEN acc
    ELSE IF i + 2 < Len(d)
         THEN encode64Loop(d, i + 3, acc \o encode3bytes(d[i + 1], d[i + 2], d[i + 3]))
    ELSE IF i + 1 < Len(d)
         THEN encode64Loop(d, i + 3, acc \o encode2bytes(d[i + 1], d[i + 2]))
    ELSE encode64Loop(d, i + 3, acc \o encode1byte(d[i + 1]))

encode64(d) == encode64Loop(d, 0, <<>>)

(***************************************************************************)
(* Specification of the encoder: a byte array is chosen and encoded.       *)
(***************************************************************************)
AllBytes == 0..255

ByteSample == {0, 1, 3, 16, 63, 128, 252, 255}

ByteArrays ==
    SeqsUpTo(ByteSample, MaxBytes) \cup SeqsUpTo(AllBytes, 2)

InitEnc ==
    /\ pc = "input"
    /\ data \in ByteArrays
    /\ r = <<>>
    /\ code = <<>>
    /\ cleanCode = <<>>
    /\ again = <<>>
    /\ UrlIdle
    /\ AppIdle

Encode64 ==
    /\ pc = "input"
    /\ r' = encode64(data)
    /\ pc' = "encoded"
    /\ UNCHANGED <<data, canonVars, urlVars, appVars>>

NextEnc == Encode64

SpecEnc == InitEnc /\ [][NextEnc]_vars

(***************************************************************************)
(* The inverse 6-bit transform (the decoder of the rendering server), used *)
(* to state the round trip.  -1 marks a character outside the alphabet.    *)
(***************************************************************************)
decode6bit(c) ==
    IF c >= 48 /\ c <= 57 THEN c - 48
    ELSE IF c >= 65 /\ c <= 90 THEN c - 65 + 10
    ELSE IF c >= 97 /\ c <= 122 THEN c - 97 + 36
    ELSE IF c = 45 THEN 62
    ELSE IF c = 95 THEN 63
    ELSE -1

RECURSIVE decode64(_)
decode64(s) ==
    IF Len(s) = 0 THEN <<>>
    ELSE IF Len(s) = 1 THEN <<-1>>
    ELSE LET c1 == decode6bit(s[1])
             c2 == decode6bit(s[2])
             b1 == (c1 * 4 + (c2 \div 16)) % 256
         IN  IF Len(s) = 2 THEN <<b1>>
             ELSE LET c3 == decode6bit(s[3])
                      b2 == ((c2 % 16) * 16 + (c3 \div 4)) % 256
                  IN  IF Len(s) = 3 THEN <<b1, b2>>
                      ELSE LET c4 == decode6bit(s[4])
                               b3 == ((c3 % 4) * 64 + c4) % 256
                           IN  <<b1, b2, b3>> \o decode64(SubSeq(s, 5, Len(s)))

\* C1: decoding the result of encode64 with the inverse 6-bit transform gives
\* back exactly the byte array that was encoded, for every length and content.
C1_RoundTrip ==
    pc = "encoded" => decode64(r) = data

\* A byte array whose length is not a multiple of 3 and that ends in 0xFF has
\* been encoded and decoded back.
C1_Witness ==
    /\ pc = "encoded"
    /\ Len(data) = 4
    /\ data[4] = 255
    /\ data[1] = 0
    /\ decode64(r) = data

(***************************************************************************)
(* The reference encoder of section 4.3 of the specification, written with *)
(* division and remainder and with the alphabet as a table.                *)
(***************************************************************************)
Alphabet ==
    [k \in 1..64 |->
        IF k <= 10 THEN 47 + k          \* '0'..'9'
        ELSE IF k <= 36 THEN 54 + k     \* 'A'..'Z'
        ELSE IF k <= 62 THEN 60 + k     \* 'a'..'z'
        ELSE IF k = 63 THEN 45          \* '-'
        ELSE 95]                        \* '_'

AlphabetChars == {Alphabet[k] : k \in 1..64}

RECURSIVE RefEncode(_)
RefEncode(d) ==
    IF Len(d) = 0 THEN <<>>
    ELSE IF Len(d) = 1
         THEN <<Alphabet[(d[1] \div 4) + 1], Alphabet[(d[1] % 4) * 16 + 1]>>
    ELSE IF Len(d) = 2
         THEN <<Alphabet[(d[1] \div 4) + 1],
                Alphabet[(d[1] % 4) * 16 + (d[2] \div 16) + 1],
                Alphabet[(d[2] % 16) * 4 + 1]>>
    ELSE <<Alphabet[(d[1] \div 4) + 1],
           Alphabet[(d[1] % 4) * 16 + (d[2] \div 16) + 1],
           Alphabet[(d[2] % 16) * 4 + (d[3] \div 64) + 1],
           Alphabet[(d[3] % 64) + 1]>> \o RefEncode(SubSeq(d, 4, Len(d)))

\* C2: encode64 gives the string of the reference encoder of section 4.3 on
\* every byte array; [0,0,0] gives "0000" and [255,255,255] gives "____".
C2_MatchesReference ==
    pc = "encoded" =>
        /\ r = RefEncode(data)
        /\ data = <<0, 0, 0>> => r = <<48, 48, 48, 48>>
        /\ data = <<255, 255, 255>> => r = <<95, 95, 95, 95>>

\* The known vector [255,255,255] has been encoded to "____".
C2_Witness ==
    /\ pc = "encoded"
    /\ data = <<255, 255, 255>>
    /\ r = <<95, 95, 95, 95>>

TailChars(n) == IF n % 3 = 0 THEN 0 ELSE IF n % 3 = 1 THEN 2 ELSE 3

\* C3: the result of encode64 has only characters of [0-9A-Za-z-_], never the
\* fallback '?', and for n bytes its length is floor(n/3)*4 plus 0, 2 or 3 for
\* a remainder of 0, 1 or 2, which is ceil(4n/3); no bytes give the empty string.
C3_OutputShape ==
    pc = "encoded" =>
        /\ \A k \in 1..Len(r) : r[k] \in AlphabetChars /\ r[k] # 63
        /\ Len(r) = (Len(data) \div 3) * 4 + TailChars(Len(data))
        /\ Len(r) = (4 * Len(data) + 2) \div 3
        /\ data = <<>> => r = <<>>

\* A full group followed by a one-byte tail has been encoded to 6 characters.
C3_Witness ==
    /\ pc = "encoded"
    /\ Len(data) = 4
    /\ Len(r) = 6
    /\ data[2] = 255

(***************************************************************************)
(* The canonicalization of getPlantUMLUrl, src/App.tsx:52:                 *)
(*   code.replace(/```[a-z]*\n?/gi, '').replace(/```\n?/gi, '').trim()     *)
(***************************************************************************)
BACKTICK == 96

LF == 10

\* [a-z] without the i flag.
IsLangChar_lowerOnly(c) == c >= 97 /\ c <= 122

\* [a-z] under the i flag: the ASCII letters of both cases.
IsLangChar(c) == (c >= 97 /\ c <= 122) \/ (c >= 65 /\ c <= 90)

\* WhiteSpace and LineTerminator of ECMAScript, the characters trim() strips.
IsWhiteSpace(c) ==
    \/ c \in {9, 10, 11, 12, 13, 32, 160, 5760, 8232, 8233, 8239, 8287, 12288, 65279}
    \/ (c >= 8192 /\ c <= 8202)

\* The literal ``` at the 1-based position i of s.
IsFenceAt(s, i) ==
    /\ i + 2 <= Len(s)
    /\ s[i] = BACKTICK
    /\ s[i + 1] = BACKTICK
    /\ s[i + 2] = BACKTICK

\* Greedy [a-z]*: the first position from i on that holds no letter.
RECURSIVE SkipLangChars(_, _)
SkipLangChars(s, i) ==
    IF i <= Len(s) /\ IsLangChar(s[i]) THEN SkipLangChars(s, i + 1) ELSE i

\* Greedy \n?.
SkipNewline(s, i) == IF i <= Len(s) /\ s[i] = LF THEN i + 1 ELSE i

\* /```[a-z]*\n?/i tried at position i: the position after the match, 0 if
\* there is no match at i.
MatchLangFence(s, i) ==
    IF IsFenceAt(s, i) THEN SkipNewline(s, SkipLangChars(s, i + 3)) ELSE 0

\* A pattern of two backticks instead of three.
MatchFence_twoTicks(s, i) ==
    IF i + 1 <= Len(s) /\ s[i] = BACKTICK /\ s[i + 1] = BACKTICK
    THEN SkipNewline(s, i + 2)
    ELSE 0

\* /```\n?/i tried at position i.
MatchFence(s, i) ==
    IF IsFenceAt(s, i) THEN SkipNewline(s, i + 3) ELSE 0

\* String.prototype.replace with a g-flagged pattern and '': the matches are
\* found left to right, each search resuming after the previous match.
RECURSIVE replaceLangFences(_, _, _)
replaceLangFences(s, i, acc) ==
    IF i > Len(s) THEN acc
    ELSE IF MatchLangFence(s, i) # 0
         THEN replaceLangFences(s, MatchLangFence(s, i), acc)
    ELSE replaceLangFences(s, i + 1, Append(acc, s[i]))

RECURSIVE replaceFences(_, _, _)
replaceFences(s, i, acc) ==
    IF i > Len(s) THEN acc
    ELSE IF MatchFence(s, i) # 0
         THEN replaceFences(s, MatchFence(s, i), acc)
    ELSE replaceFences(s, i + 1, Append(acc, s[i]))

RECURSIVE trimStart(_)
trimStart(s) ==
    IF Len(s) > 0 /\ IsWhiteSpace(s[1]) THEN trimStart(Tail(s)) ELSE s

RECURSIVE trimEnd(_)
trimEnd(s) ==
    IF Len(s) > 0 /\ IsWhiteSpace(s[Len(s)])
    THEN trimEnd(SubSeq(s, 1, Len(s) - 1))
    ELSE s

\* trimStart() in place of trim().
trim_startOnly(s) == trimStart(s)

trim(s) == trimEnd(trimStart(s))

\* The text trimmed before the fences are removed instead of after.
cleanCodeOf_trimFirst(c) ==
    replaceFences(replaceLangFences(trim(c), 1, <<>>), 1, <<>>)

cleanCodeOf(c) ==
    trim(replaceFences(replaceLangFences(c, 1, <<>>), 1, <<>>))

(***************************************************************************)
(* Specification of the canonicalizer: a text is chosen, canonicalized,    *)
(* and the result is canonicalized once more.                              *)
(***************************************************************************)
\* backtick, 'a', 'Z', line feed, space, '@'
TextChars == {96, 97, 90, 10, 32, 64}

Texts == SeqsUpTo(TextChars, MaxText)

InitCanon ==
    /\ pc = "input"
    /\ code \in Texts
    /\ cleanCode = <<>>
    /\ again = <<>>
    /\ data = <<>>
    /\ r = <<>>
    /\ UrlIdle
    /\ AppIdle

Canonicalize ==
    /\ pc = "input"
    /\ cleanCode' = cleanCodeOf(code)
    /\ pc' = "clean"
    /\ UNCHANGED <<code, again, encVars, urlVars, appVars>>

Recanonicalize ==
    /\ pc = "clean"
    /\ again' = cleanCodeOf(cleanCode)
    /\ pc' = "twice"
    /\ UNCHANGED <<code, cleanCode, encVars, urlVars, appVars>>

NextCanon == Canonicalize \/ Recanonicalize

SpecCanon == InitCanon /\ [][NextCanon]_vars

\* The text holds three backticks in a row at position i.
TripleAt(s, i) ==
    i >= 1 /\ i + 2 <= Len(s) /\ s[i] = 96 /\ s[i + 1] = 96 /\ s[i + 2] = 96

HasFence(s) == \E i \in 1..Len(s) : TripleAt(s, i)

IsLetter(c) == c \in (65..90) \cup (97..122)

\* Space, line feed and the other characters that count as whitespace.
IsSpace(c) == c \in {9, 10, 11, 12, 13, 32, 160, 12288, 65279}

\* The text without its leading and trailing whitespace: the part from the
\* first to the last character that is not whitespace.
Trimmed(s) ==
    LET solid == {k \in 1..Len(s) : ~IsSpace(s[k])}
    IN  IF solid = {} THEN <<>>
        ELSE SubSeq(s, CHOOSE k \in solid : \A m \in solid : k <= m,
                       CHOOSE k \in solid : \A m \in solid : k >= m)

\* C4: canonicalizing the canonicalized text returns it unchanged.
C4_Idempotent ==
    pc = "twice" => again = cleanCode

\* A text from which a fence was removed, leaving backticks behind, has been
\* canonicalized twice.
C4_Witness ==
    /\ pc = "twice"
    /\ HasFence(code)
    /\ \E i \in 1..Len(cleanCode) : cleanCode[i] = 96
    /\ again = cleanCode

\* C5: the canonicalized text neither starts nor ends with whitespace and
\* contains no triple backtick anywhere.
C5_CanonicalText ==
    pc = "clean" =>
        /\ cleanCode # <<>> =>
              /\ ~IsSpace(cleanCode[1])
              /\ ~IsSpace(cleanCode[Len(cleanCode)])
        /\ ~HasFence(cleanCode)

\* A text with a fence and with whitespace at both ends has been canonicalized
\* to a non-empty text.
C5_Witness ==
    /\ pc = "clean"
    /\ HasFence(code)
    /\ Len(code) > 0
    /\ IsSpace(code[1])
    /\ IsSpace(code[Len(code)])
    /\ cleanCode # <<>>

\* A triple backtick in the middle of a line: it starts right after a
\* character that is neither a line feed nor a backtick.
HasMidLineFence(s) ==
    \E i \in 2..Len(s) :
        /\ TripleAt(s, i)
        /\ s[i - 1] # 10
        /\ s[i - 1] # 96

\* C6 as stated: a text with a triple backtick in the middle of a line is
\* left unmodified, the result is the input only trimmed.
C6_MidFenceUntouched ==
    pc = "clean" /\ HasMidLineFence(code) => cleanCode = Trimmed(code)

(***************************************************************************)
(* What the two replacements delete, stated per position: of every maximal *)
(* run of backticks the leading groups of three; and after a run made of   *)
(* whole groups, the letters that follow it and one line feed after those. *)
(***************************************************************************)
RECURSIVE RunStart(_, _)
RunStart(s, i) ==
    IF i > 1 /\ s[i - 1] = 96 THEN RunStart(s, i - 1) ELSE i

RECURSIVE RunEnd(_, _)
RunEnd(s, i) ==
    IF i < Len(s) /\ s[i + 1] = 96 THEN RunEnd(s, i + 1) ELSE i

RunLen(s, i) == RunEnd(s, i) - RunStart(s, i) + 1

RECURSIVE WordStart(_, _)
WordStart(s, i) ==
    IF i > 1 /\ IsLetter(s[i - 1]) THEN WordStart(s, i - 1) ELSE i

\* Position i follows a run of backticks made of whole groups of three.
AfterWholeRun(s, i) ==
    /\ i > 1
    /\ s[i - 1] = 96
    /\ RunLen(s, i - 1) % 3 = 0

IsDeleted(s, i) ==
    IF s[i] = 96
        THEN i - RunStart(s, i) < 3 * (RunLen(s, i) \div 3)
    ELSE IF IsLetter(s[i])
        THEN AfterWholeRun(s, WordStart(s, i))
    ELSE IF s[i] = 10
        THEN \/ AfterWholeRun(s, i)
             \/ /\ i > 1
                /\ IsLetter(s[i - 1])
                /\ AfterWholeRun(s, WordStart(s, i - 1))
    ELSE FALSE

RECURSIVE KeptFrom(_, _)
KeptFrom(s, i) ==
    IF i > Len(s) THEN <<>>
    ELSE IF IsDeleted(s, i) THEN KeptFrom(s, i + 1)
    ELSE <<s[i]>> \o KeptFrom(s, i + 1)

\* C6 amended: a triple backtick in the middle of a line is removed like any
\* other, with the letters that directly follow it and one line feed after
\* those; the result is what is left, trimmed, and it is shorter than the
\* trimmed input by at least the three backticks.
C6_MidFenceRemoved ==
    pc = "clean" /\ HasMidLineFence(code) =>
        /\ cleanCode = Trimmed(KeptFrom(code, 1))
        /\ Len(cleanCode) + 3 <= Len(Trimmed(code))

\* A text with '@', a triple backtick and an upper-case letter has been
\* canonicalized to "@".
C6_Witness ==
    /\ pc = "clean"
    /\ code = <<64, 96, 96, 96, 90>>
    /\ cleanCode = <<64>>

\* C7: a text without a triple backtick is returned with only its leading and
\* trailing whitespace removed.
C7_PassThrough ==
    pc = "clean" /\ ~HasFence(code) =>
        /\ cleanCode = Trimmed(code)
        /\ \E i \in 0..Len(code) : \E j \in 0..Len(code) :
              /\ i + j + Len(cleanCode) = Len(code)
              /\ cleanCode = SubSeq(code, i + 1, Len(code) - j)
              /\ \A k \in 1..i : IsSpace(code[k])
              /\ \A k \in (Len(code) - j + 1)..Len(code) : IsSpace(code[k])

\* A text with two backticks, letters and whitespace at the ends, but no
\* triple backtick, has been canonicalized.
C7_Witness ==
    /\ pc = "clean"
    /\ ~HasFence(code)
    /\ \E i \in 1..(Len(code) - 1) : code[i] = 96 /\ code[i + 1] = 96
    /\ Len(code) > 0
    /\ IsSpace(code[1])
    /\ Len(cleanCode) >= 3

(***************************************************************************)
(* new TextEncoder().encode(cleanCode), src/App.tsx:53-54: the UTF-8 bytes *)
(* of a string of UTF-16 code units.  A surrogate pair gives four bytes, a *)
(* lone surrogate is replaced by U+FFFD.                                   *)
(***************************************************************************)
IsHighSurrogate(c) == c >= 55296 /\ c <= 56319

IsLowSurrogate(c) == c >= 56320 /\ c <= 57343

utf8OfCodePoint(cp) ==
    IF cp < 128 THEN <<cp>>
    ELSE IF cp < 2048 THEN <<192 + (cp \div 64), 128 + (cp % 64)>>
    ELSE IF cp < 65536
         THEN <<224 + (cp \div 4096), 128 + ((cp \div 64) % 64), 128 + (cp % 64)>>
    ELSE <<240 + (cp \div 262144), 128 + ((cp \div 4096) % 64),
           128 + ((cp \div 64) % 64), 128 + (cp % 64)>>

RECURSIVE utf8Encode(_)
utf8Encode(s) ==
    IF Len(s) = 0 THEN <<>>
    ELSE IF IsHighSurrogate(s[1]) /\ Len(s) > 1 /\ IsLowSurrogate(s[2])
         THEN utf8OfCodePoint(65536 + (s[1] - 55296) * 1024 + (s[2] - 56320))
              \o utf8Encode(SubSeq(s, 3, Len(s)))
    ELSE IF IsHighSurrogate(s[1]) \/ IsLowSurrogate(s[1])
         THEN utf8OfCodePoint(65533) \o utf8Encode(Tail(s))
    ELSE utf8OfCodePoint(s[1]) \o utf8Encode(Tail(s))

(***************************************************************************)
(* pako.deflate(data, { level: 9 }), src/App.tsx:55.  pako is a port of    *)
(* zlib: deflate() returns a zlib stream (RFC 1950), the two header bytes  *)
(* 0x78 0xDA of level 9, the DEFLATE data (RFC 1951) and the Adler-32 of   *)
(* the input.  For inputs as short as those of this model zlib emits one   *)
(* final block with the fixed Huffman codes, its symbols chosen by the     *)
(* lazy matching of deflate_slow.                                          *)
(***************************************************************************)
MIN_MATCH == 3

MAX_MATCH == 258

TOO_FAR == 4096

\* Bytes are addressed from 0 as in zlib's window: byte p is d[p + 1].
RECURSIVE CommonLen(_, _, _, _)
CommonLen(d, p, s, l) ==
    IF s + l < Len(d) /\ l < MAX_MATCH /\ d[p + l + 1] = d[s + l + 1]
    THEN CommonLen(d, p, s, l + 1)
    ELSE l

\* longest_match: the hash chain of position s holds the earlier positions
\* with the same three bytes, the most recent first; position 0 is never on
\* a chain (0 is NIL).  A candidate replaces the best match only when it is
\* strictly longer.  The result is <<length, start>>.
RECURSIVE longestMatch(_, _, _, _, _)
longestMatch(d, s, p, bestLen, bestStart) ==
    IF p < 1 THEN <<bestLen, bestStart>>
    ELSE IF CommonLen(d, p, s, 0) >= MIN_MATCH /\ CommonLen(d, p, s, 0) > bestLen
         THEN longestMatch(d, s, p - 1, CommonLen(d, p, s, 0), p)
    ELSE longestMatch(d, s, p - 1, bestLen, bestStart)

Literal(b) == [len |-> 0, v |-> b]

Match(l, dist) == [len |-> l, v |-> dist]

\* deflate_slow: s is strstart, ml and ms are match_length and match_start
\* left by the previous position, avail is match_available.  At level 9
\* max_lazy_match is MAX_MATCH; a match of length 3 further than TOO_FAR back
\* is dropped.
RECURSIVE deflateSlow(_, _, _, _, _, _)
deflateSlow(d, s, ml, ms, avail, out) ==
    IF s >= Len(d)
    THEN IF avail THEN Append(out, Literal(d[Len(d)])) ELSE out
    ELSE LET lookahead == Len(d) - s
             search == lookahead >= MIN_MATCH /\ ml < MAX_MATCH
             found == IF search THEN longestMatch(d, s, s - 1, ml, ms)
                      ELSE <<MIN_MATCH - 1, ms>>
             capped == IF found[1] <= lookahead THEN found[1] ELSE lookahead
             curLen == IF ~search THEN MIN_MATCH - 1
                       ELSE IF capped = MIN_MATCH /\ s - found[2] > TOO_FAR
                            THEN MIN_MATCH - 1
                       ELSE capped
         IN  IF ml >= MIN_MATCH /\ curLen <= ml
             THEN deflateSlow(d, s + ml - 1, MIN_MATCH - 1, found[2], FALSE,
                              Append(out, Match(ml, s - 1 - ms)))
             ELSE IF avail
             THEN deflateSlow(d, s + 1, curLen, found[2], TRUE,
                              Append(out, Literal(d[s])))
             ELSE deflateSlow(d, s + 1, curLen, found[2], TRUE, out)

\* The bits of v, n of them, most significant first (Huffman codes) and
\* least significant first (extra bits, header fields).
RECURSIVE MsbBits(_, _)
MsbBits(v, n) ==
    IF n = 0 THEN <<>> ELSE Append(MsbBits(v \div 2, n - 1), v % 2)

RECURSIVE LsbBits(_, _)
LsbBits(v, n) ==
    IF n = 0 THEN <<>> ELSE <<v % 2>> \o LsbBits(v \div 2, n - 1)

\* The fixed Huffman code of a literal/length symbol (RFC 1951, 3.2.6).
FixedCode(sym) ==
    IF sym < 144 THEN MsbBits(48 + sym, 8)
    ELSE IF sym < 256 THEN MsbBits(400 + sym - 144, 9)
    ELSE IF sym < 280 THEN MsbBits(sym - 256, 7)
    ELSE MsbBits(192 + sym - 280, 8)

\* Base values and extra bits of the length codes 257..285 and of the
\* distance codes 0..29 (RFC 1951, 3.2.5).
LengthBase ==
    <<3, 4, 5, 6, 7, 8, 9, 10, 11, 13, 15, 17, 19, 23, 27, 31, 35, 43, 51, 59,
      67, 83, 99, 115, 131, 163, 195, 227, 258>>

LengthExtra ==
    <<0, 0, 0, 0, 0, 0, 0, 0, 1, 1, 1, 1, 2, 2, 2, 2, 3, 3, 3, 3,
      4, 4, 4, 4, 5, 5, 5, 5, 0>>

DistBase ==
    <<1, 2, 3, 4, 5, 7, 9, 13, 17, 25, 33, 49, 65, 97, 129, 193, 257, 385,
      513, 769, 1025, 1537, 2049, 3073, 4097, 6145, 8193, 12289, 16385, 24577>>

DistExtra ==
    <<0, 0, 0, 0, 1, 1, 2, 2, 3, 3, 4, 4, 5, 5, 6, 6, 7, 7,
      8, 8, 9, 9, 10, 10, 11, 11, 12, 12, 13, 13>>

\* The index of the last base value that is at most v.
CodeIndex(base, v) ==
    CHOOSE k \in 1..Len(base) :
        /\ base[k] <= v
        /\ k = Len(base) \/ base[k + 1] > v

TokenBits(t) ==
    IF t.len = 0 THEN FixedCode(t.v)
    ELSE LET lk == CodeIndex(LengthBase, t.len)
             dk == CodeIndex(DistBase, t.v)
         IN  FixedCode(256 + lk) \o LsbBits(t.len - LengthBase[lk], LengthExtra[lk])
             \o MsbBits(dk - 1, 5) \o LsbBits(t.v - DistBase[dk], DistExtra[dk])

RECURSIVE TokensBits(_)
TokensBits(ts) ==
    IF Len(ts) = 0 THEN <<>> ELSE TokenBits(ts[1]) \o TokensBits(Tail(ts))

\* Bits are packed into bytes starting at the least significant bit; the
\* last byte is filled with zero bits.
RECURSIVE PackBits(_)
PackBits(bits) ==
    IF Len(bits) = 0 THEN <<>>
    ELSE IF Len(bits) < 8 THEN PackBits(bits \o [k \in 1..(8 - Len(bits)) |-> 0])
    ELSE <<bits[1] + 2 * bits[2] + 4 * bits[3] + 8 * bits[4] + 16 * bits[5]
           + 32 * bits[6] + 64 * bits[7] + 128 * bits[8]>>
         \o PackBits(SubSeq(bits, 9, Len(bits)))

\* The DEFLATE data: BFINAL = 1, BTYPE = 01, the symbols, end of block (256).
deflateRaw(d) ==
    PackBits(<<1>> \o LsbBits(1, 2)
             \o TokensBits(deflateSlow(d, 0, MIN_MATCH - 1, 0, FALSE, <<>>))
             \o FixedCode(256))

RECURSIVE adler32(_, _, _)
adler32(d, a, b) ==
    IF Len(d) = 0 THEN <<b \div 256, b % 256, a \div 256, a % 256>>
    ELSE adler32(Tail(d), (a + d[1]) % 65521, (b + ((a + d[1]) % 65521)) % 65521)

ZlibHeader == <<120, 218>>

\* pako.deflateRaw in place of pako.deflate: the DEFLATE data alone.
deflate_noEnvelope(d) == deflateRaw(d)

deflate(d) == ZlibHeader \o deflateRaw(d) \o adler32(d, 1, 0)

(***************************************************************************)
(* getPlantUMLUrl, src/App.tsx:49-62.  A stage that throws is chosen by    *)
(* the argument fail; stages lists the stages that were entered.           *)
(***************************************************************************)
\* "https://plantuml.com/plantuml/svg/"
UrlBase ==
    <<104, 116, 116, 112, 115, 58, 47, 47, 112, 108, 97, 110,
      116, 117, 109, 108, 46, 99, 111, 109, 47, 112, 108, 97,
      110, 116, 117, 109, 108, 47, 115, 118, 103, 47>>

\* "~1"
SchemeTag == <<126, 49>>

\* The template literal without the scheme tag.
assemble_noTag(encoded) == UrlBase \o encoded

\* The template literal of line 57.
assemble(encoded) == UrlBase \o SchemeTag \o encoded

Stages == <<"canonicalize", "TextEncoder", "deflate", "encode64", "assemble">>

FailPoints == {"none", "canonicalize", "TextEncoder", "deflate", "encode64"}

\* The position in Stages of the stage that throws, 0 if none does.
FailIndex(fail) ==
    IF fail = "none" THEN 0 ELSE CHOOSE k \in 1..Len(Stages) : Stages[k] = fail

\* The try block, lines 52-57: it either returns the URL or throws.
tryBlock(c, fail) ==
    IF fail = "none"
    THEN [threw |-> FALSE,
          value |-> assemble(encode64(deflate(utf8Encode(cleanCodeOf(c))))),
          stages |-> Stages]
    ELSE [threw |-> TRUE,
          value |-> <<>>,
          stages |-> SubSeq(Stages, 1, FailIndex(fail))]

\* A catch block that logs and throws again.
catchBlock_rethrow(t) ==
    [ret |-> <<>>, thrown |-> TRUE, logged |-> TRUE, stages |-> t.stages]

\* The catch block, lines 58-61: console.error, return "".
catchBlock(t) ==
    [ret |-> <<>>, thrown |-> FALSE, logged |-> TRUE, stages |-> t.stages]

getPlantUMLUrl(v, fail) ==
    IF Falsy(v)
    THEN [ret |-> <<>>, thrown |-> FALSE, logged |-> FALSE, stages |-> <<>>]
    ELSE LET t == tryBlock(v.str, fail)
         IN  IF t.threw THEN catchBlock(t)
             ELSE [ret |-> t.value, thrown |-> FALSE, logged |-> FALSE,
                   stages |-> t.stages]

(***************************************************************************)
(* Specification of the URL pipeline: a value of saltCode is chosen; the   *)
(* function is called with it directly, or through the useMemo of          *)
(* SaltPreview (line 281), which calls it only for a truthy saltCode.      *)
(***************************************************************************)
\* backtick, line feed, '@', 'e' with acute accent, hiragana 'a', and the
\* two surrogates of U+1F600
CodeChars == {96, 10, 64, 233, 12354, 55357, 56832}

SaltCodes == {Null} \cup {Str(s) : s \in SeqsUpTo(CodeChars, MaxCode)}

InitUrl ==
    /\ pc = "input"
    /\ saltCode \in SaltCodes
    /\ failAt = "none"
    /\ call = NoCall
    /\ data = <<>>
    /\ r = <<>>
    /\ code = <<>>
    /\ cleanCode = <<>>
    /\ again = <<>>
    /\ AppIdle

GetPlantUMLUrl ==
    /\ pc = "input"
    /\ \E fail \in FailPoints :
          /\ failAt' = fail
          /\ call' = getPlantUMLUrl(saltCode, fail)
    /\ pc' = "returned"
    /\ UNCHANGED <<saltCode, encVars, canonVars, appVars>>

SaltPreview ==
    /\ pc = "input"
    /\ \E fail \in FailPoints :
          /\ failAt' = fail
          /\ call' = IF ~Falsy(saltCode) THEN getPlantUMLUrl(saltCode, fail)
                     ELSE NoCall
    /\ pc' = "rendered"
    /\ UNCHANGED <<saltCode, encVars, canonVars, appVars>>

NextUrl == GetPlantUMLUrl \/ SaltPreview

SpecUrl == InitUrl /\ [][NextUrl]_vars

\* The text is absent (null) or the empty string.
EmptyOrAbsent(v) == v.null \/ Len(v.str) = 0

\* C8: whichever stage throws, canonicalization, UTF-8 encoding, compression
\* or 6-bit encoding, the call returns the empty string after logging, and no
\* exception reaches the caller; every call ends with a string result.
C8_FailureContained ==
    pc # "input" =>
        /\ ~call.thrown
        /\ failAt # "none" /\ ~EmptyOrAbsent(saltCode) =>
              /\ call.ret = <<>>
              /\ call.logged

\* The compression stage has thrown for a non-empty text, and the call has
\* returned the empty string after logging.
C8_Witness ==
    /\ pc = "returned"
    /\ failAt = "deflate"
    /\ ~EmptyOrAbsent(saltCode)
    /\ call.stages = <<"canonicalize", "TextEncoder", "deflate">>
    /\ call.ret = <<>>
    /\ call.logged
    /\ ~call.thrown

\* C9: for an empty or absent text the call returns the empty string, enters
\* no stage and logs nothing; a non-empty text is never stopped by the guard,
\* it enters the pipeline even when it canonicalizes to the empty text.
C9_EmptyGuard ==
    pc # "input" =>
        /\ EmptyOrAbsent(saltCode) =>
              /\ call.ret = <<>>
              /\ call.stages = <<>>
              /\ ~call.logged
              /\ ~call.thrown
        /\ ~EmptyOrAbsent(saltCode) =>
              /\ call.stages # <<>>
              /\ call.stages[1] = "canonicalize"
              /\ failAt = "none" => call.stages = Stages /\ call.ret # <<>>

\* The function has been called with the empty string and has returned the
\* empty string without entering a stage.
C9_Witness ==
    /\ pc = "returned"
    /\ saltCode = Str(<<>>)
    /\ failAt = "deflate"
    /\ call.ret = <<>>
    /\ call.stages = <<>>
    /\ ~call.logged

\* C10: for a non-empty text and no failing stage, the result is
\* "https://plantuml.com/plantuml/svg/", then "~1", then encode64 of the
\* compressed UTF-8 bytes of the canonicalized text, the stages having run in
\* the order canonicalize, compress, encode, assemble.
C10_UrlShape ==
    pc # "input" /\ ~EmptyOrAbsent(saltCode) /\ failAt = "none" =>
        /\ Len(call.ret) >= 36
        /\ SubSeq(call.ret, 1, 34) =
              <<104, 116, 116, 112, 115, 58, 47, 47, 112, 108, 97, 110, 116,
                117, 109, 108, 46, 99, 111, 109, 47, 112, 108, 97, 110, 116,
                117, 109, 108, 47, 115, 118, 103, 47>>
        /\ call.ret[35] = 126
        /\ call.ret[36] = 49
        /\ SubSeq(call.ret, 37, Len(call.ret)) =
              encode64(deflate(utf8Encode(cleanCodeOf(saltCode.str))))
        /\ call.stages =
              <<"canonicalize", "TextEncoder", "deflate", "encode64", "assemble">>

\* SaltPreview has rendered "```@": the URL ends in "~1UDfp0000GG11", the
\* encoding of the compressed "@".
C10_Witness ==
    /\ pc = "rendered"
    /\ saltCode = Str(<<96, 96, 96, 64>>)
    /\ failAt = "none"
    /\ SubSeq(call.ret, 35, Len(call.ret)) =
          <<126, 49, 85, 68, 102, 112, 48, 48, 48, 48, 71, 71, 49, 49>>

(***************************************************************************)
(* A raw-DEFLATE decompressor (RFC 1951), used to state what the payload   *)
(* is: it reads blocks from the first bit of the stream, with no zlib or   *)
(* gzip envelope around them.  The result is [ok, out]; ok is FALSE for a  *)
(* stream that is not valid raw DEFLATE.  Stored blocks and blocks with    *)
(* the fixed Huffman codes are decoded; a block with dynamic codes, which  *)
(* the compressor never emits for texts this short, is not.                *)
(***************************************************************************)
RECURSIVE StreamBits(_)
StreamBits(bytes) ==
    IF Len(bytes) = 0 THEN <<>>
    ELSE <<bytes[1] % 2, (bytes[1] \div 2) % 2, (bytes[1] \div 4) % 2,
           (bytes[1] \div 8) % 2, (bytes[1] \div 16) % 2, (bytes[1] \div 32) % 2,
           (bytes[1] \div 64) % 2, (bytes[1] \div 128) % 2>>
         \o StreamBits(Tail(bytes))

\* The value of the n bits after position pos, first bit most significant
\* (Huffman codes) or least significant (every other field).
RECURSIVE ReadMsb(_, _, _)
ReadMsb(bits, pos, n) ==
    IF n = 0 THEN 0 ELSE 2 * ReadMsb(bits, pos, n - 1) + bits[pos + n]

RECURSIVE ReadLsb(_, _, _)
ReadLsb(bits, pos, n) ==
    IF n = 0 THEN 0 ELSE bits[pos + 1] + 2 * ReadLsb(bits, pos + 1, n - 1)

InflateFailed == [ok |-> FALSE, out |-> <<>>]

\* The literal/length symbol of the fixed code that starts after pos, as
\* <<symbol, code length>>; <<-1, 0>> when the stream ends inside the code.
FixedSymbol(bits, pos) ==
    IF pos + 7 > Len(bits) THEN <<-1, 0>>
    ELSE IF ReadMsb(bits, pos, 7) <= 23 THEN <<256 + ReadMsb(bits, pos, 7), 7>>
    ELSE IF pos + 8 > Len(bits) THEN <<-1, 0>>
    ELSE IF ReadMsb(bits, pos, 8) >= 48 /\ ReadMsb(bits, pos, 8) <= 191
         THEN <<ReadMsb(bits, pos, 8) - 48, 8>>
    ELSE IF ReadMsb(bits, pos, 8) >= 192 /\ ReadMsb(bits, pos, 8) <= 199
         THEN <<280 + ReadMsb(bits, pos, 8) - 192, 8>>
    ELSE IF pos + 9 > Len(bits) THEN <<-1, 0>>
    ELSE <<144 + ReadMsb(bits, pos, 9) - 400, 9>>

\* out extended by n bytes copied from dist bytes back, one at a time, so
\* that a copy may overlap the bytes it writes.
RECURSIVE CopyBack(_, _, _)
CopyBack(out, dist, n) ==
    IF n = 0 THEN out
    ELSE CopyBack(Append(out, out[Len(out) - dist + 1]), dist, n - 1)

\* The symbols of one block with the fixed codes, from pos on: the result is
\* [ok, out, pos], pos being the position after the end-of-block symbol.
RECURSIVE InflateFixed(_, _, _)
InflateFixed(bits, pos, out) ==
    LET sym == FixedSymbol(bits, pos)
        p1 == pos + sym[2]
    IN  IF sym[1] < 0 \/ sym[1] > 285 THEN [ok |-> FALSE, out |-> <<>>, pos |-> 0]
        ELSE IF sym[1] < 256 THEN InflateFixed(bits, p1, Append(out, sym[1]))
        ELSE IF sym[1] = 256 THEN [ok |-> TRUE, out |-> out, pos |-> p1]
        ELSE LET lk == sym[1] - 256
                 lx == <<0, 0, 0, 0, 0, 0, 0, 0, 1, 1, 1, 1, 2, 2, 2, 2, 3, 3, 3, 3,
                         4, 4, 4, 4, 5, 5, 5, 5, 0>>[lk]
                 lb == <<3, 4, 5, 6, 7, 8, 9, 10, 11, 13, 15, 17, 19, 23, 27, 31,
                         35, 43, 51, 59, 67, 83, 99, 115, 131, 163, 195, 227,
                         258>>[lk]
                 p2 == p1 + lx
                 p3 == p2 + 5
                 dk == IF p3 <= Len(bits) THEN ReadMsb(bits, p2, 5) + 1 ELSE 31
                 dx == IF dk <= 30 THEN (IF dk <= 4 THEN 0 ELSE (dk - 3) \div 2) ELSE 0
                 db == IF dk <= 30
                       THEN <<1, 2, 3, 4, 5, 7, 9, 13, 17, 25, 33, 49, 65, 97, 129,
                              193, 257, 385, 513, 769, 1025, 1537, 2049, 3073,
                              4097, 6145, 8193, 12289, 16385, 24577>>[dk]
                       ELSE 0
                 p4 == p3 + dx
             IN  IF dk > 30 \/ p4 > Len(bits)
                 THEN [ok |-> FALSE, out |-> <<>>, pos |-> 0]
                 ELSE LET len == lb + ReadLsb(bits, p1, lx)
                          dist == db + ReadLsb(bits, p3, dx)
                      IN  IF dist > Len(out)
                          THEN [ok |-> FALSE, out |-> <<>>, pos |-> 0]
                          ELSE InflateFixed(bits, p4, CopyBack(out, dist, len))

\* The bytes of the stream from the 0-based byte position from on, n of them.
RECURSIVE StoredBytes(_, _, _)
StoredBytes(bits, from, n) ==
    IF n = 0 THEN <<>>
    ELSE <<ReadLsb(bits, 8 * from, 8)>> \o StoredBytes(bits, from + 1, n - 1)

\* The blocks from pos on: the 3-bit header BFINAL, BTYPE, then the block.
RECURSIVE InflateBlocks(_, _, _)
InflateBlocks(bits, pos, out) ==
    IF pos + 3 > Len(bits) THEN InflateFailed
    ELSE LET final == bits[pos + 1] = 1
             btype == ReadLsb(bits, pos + 1, 2)
         IN  IF btype = 0
             THEN LET from == (pos + 3 + 7) \div 8
                      len == ReadLsb(bits, 8 * from, 16)
                      nlen == ReadLsb(bits, 8 * from + 16, 16)
                  IN  IF 8 * (from + 4) > Len(bits) THEN InflateFailed
                      ELSE IF len + nlen # 65535 THEN InflateFailed
                      ELSE IF 8 * (from + 4 + len) > Len(bits) THEN InflateFailed
                      ELSE IF final
                      THEN [ok |-> TRUE,
                            out |-> out \o StoredBytes(bits, from + 4, len)]
                      ELSE InflateBlocks(bits, 8 * (from + 4 + len),
                                         out \o StoredBytes(bits, from + 4, len))
             ELSE IF btype = 1
             THEN LET blk == InflateFixed(bits, pos + 3, out)
                  IN  IF ~blk.ok THEN InflateFailed
                      ELSE IF final THEN [ok |-> TRUE, out |-> blk.out]
                      ELSE InflateBlocks(bits, blk.pos, blk.out)
             ELSE InflateFailed

inflateRaw(bytes) == InflateBlocks(StreamBits(bytes), 0, <<>>)

\* The bytes that the URL carries after "~1".
Payload == decode64(SubSeq(call.ret, 37, Len(call.ret)))

RECURSIVE ByteSum(_, _)
ByteSum(d, n) == IF n = 0 THEN 0 ELSE ByteSum(d, n - 1) + d[n]

RECURSIVE LowHalfSum(_, _)
LowHalfSum(d, n) ==
    IF n = 0 THEN 0 ELSE LowHalfSum(d, n - 1) + 1 + ByteSum(d, n)

Checksum(d) ==
    LET lo == (1 + ByteSum(d, Len(d))) % 65521
        hi == LowHalfSum(d, Len(d)) % 65521
    IN  <<hi \div 256, hi % 256, lo \div 256, lo % 256>>

FidelityOptions == {10, 50, 100}

ModelOptions == {"gemini-3-flash-preview", "gemini-3-pro-preview"}

\* '@', '!' and '#' followed by the digit of the request
CodeText(k) == <<64, 48 + k>>

ErrorText(k) == <<33, 48 + k>>

RefinedText(k) == <<35, 48 + k>>

Request(kind, img) ==
    [kind |-> kind, image |-> img, phase |-> "reading", outcome |-> "none",
     cancelled |-> FALSE, wrote |-> FALSE]

InFlight(k) == reqs[k].phase # "done"

\* processConversion up to its first await, lines 376-385.
processConversion(img) ==
    /\ img # 0
    /\ Len(reqs) < MaxRequests
    /\ isCancelledRef' = FALSE
    /\ isLoading' = TRUE
    /\ error' = Null
    /\ elapsedTime' = 0
    /\ timerRef' = Len(reqs) + 1
    /\ intervals' = (intervals \ {timerRef}) \cup {Len(reqs) + 1}
    /\ reqs' = Append(reqs, Request("convert", img))

\* handleImageSelect with a new File, lines 368-373, and the effect of line
\* 411, which runs processConversion for the new imageFile.
handleImageSelect ==
    /\ imageFile < MaxImages
    /\ imageFile' = imageFile + 1
    /\ saltCode' = Null
    /\ processConversion(imageFile + 1)
    /\ UNCHANGED <<fidelity, selectedModel>>

\* ImageInput.handleDrop, lines 188-195: a dropped image is taken whether or
\* not a conversion is loading.
HandleDrop ==
    /\ pc = "app"
    /\ handleImageSelect
    /\ UNCHANGED <<pc, encVars, canonVars, failAt, call>>

\* ImageInput.handlePaste and the file input, lines 197-201 and 226-228: an
\* image is taken only while nothing is loading.
HandlePaste ==
    /\ pc = "app"
    /\ ~isLoading
    /\ handleImageSelect
    /\ UNCHANGED <<pc, encVars, canonVars, failAt, call>>

\* The retry button, lines 216 and 436: shown while nothing is loading,
\* enabled when there is an image.
OnRetry ==
    /\ pc = "app"
    /\ ~isLoading
    /\ processConversion(imageFile)
    /\ UNCHANGED <<pc, encVars, canonVars, urlVars, imageFile, fidelity,
                   selectedModel>>

\* The cancel button, lines 214 and 437: shown while loading.
OnCancel ==
    /\ pc = "app"
    /\ isLoading
    /\ isCancelledRef' = TRUE
    /\ isLoading' = FALSE
    /\ reqs' = [k \in 1..Len(reqs) |->
                   IF InFlight(k) THEN [reqs[k] EXCEPT !.cancelled = TRUE]
                   ELSE reqs[k]]
    /\ UNCHANGED <<pc, encVars, canonVars, urlVars, imageFile, error,
                   elapsedTime, timerRef, fidelity, selectedModel, intervals>>

\* The options, lines 113-117, 135-142 and 423-430: enabled while nothing is
\* loading.  A new value gives a new processConversion, for which the effect
\* of line 411 runs when there is an image.
OnFidelityChange ==
    /\ pc = "app"
    /\ ~isLoading
    /\ \E v \in FidelityOptions \ {fidelity} : fidelity' = v
    /\ IF imageFile # 0
       THEN processConversion(imageFile)
       ELSE UNCHANGED <<isCancelledRef, isLoading, error, elapsedTime, timerRef,
                        intervals, reqs>>
    /\ UNCHANGED <<pc, encVars, canonVars, urlVars, imageFile, selectedModel>>

OnModelChange ==
    /\ pc = "app"
    /\ ~isLoading
    /\ \E m \in ModelOptions \ {selectedModel} : selectedModel' = m
    /\ IF imageFile # 0
       THEN processConversion(imageFile)
       ELSE UNCHANGED <<isCancelledRef, isLoading, error, elapsedTime, timerRef,
                        intervals, reqs>>
    /\ UNCHANGED <<pc, encVars, canonVars, urlVars, imageFile, fidelity>>

\* handleRefine up to its first await, lines 396-401; RefinementControl is
\* rendered for a truthy saltCode and enabled while nothing is loading.
HandleRefine ==
    /\ pc = "app"
    /\ imageFile # 0
    /\ ~Falsy(saltCode)
    /\ ~isLoading
    /\ Len(reqs) < MaxRequests
    /\ isLoading' = TRUE
    /\ error' = Null
    /\ reqs' = Append(reqs, Request("refine", imageFile))
    /\ UNCHANGED <<pc, encVars, canonVars, urlVars, imageFile, elapsedTime,
                   timerRef, isCancelledRef, fidelity, selectedModel, intervals>>

\* The rest of processConversion once an await has settled, lines 387-393:
\* the result or the error is stored unless isCancelledRef.current is set,
\* then the finally block runs.
conversionSettles(k, outcome) ==
    /\ saltCode' = IF isCancelledRef \/ outcome = "error" THEN saltCode
                   ELSE IF outcome = "code" THEN Str(CodeText(k))
                   ELSE Str(<<>>)
    /\ error' = IF ~isCancelledRef /\ outcome = "error" THEN Str(ErrorText(k))
                ELSE error
    /\ isLoading' = FALSE
    /\ intervals' = intervals \ {timerRef}
    /\ timerRef' = 0
    /\ reqs' = [reqs EXCEPT ![k] = [@ EXCEPT !.phase = "done",
                                              !.outcome = outcome,
                                              !.wrote = ~isCancelledRef]]
    /\ UNCHANGED <<elapsedTime, isCancelledRef>>

\* The rest of handleRefine once an await has settled, lines 403-408.
refinementSettles(k, outcome) ==
    /\ saltCode' = IF outcome = "error" THEN saltCode
                   ELSE IF outcome = "code" THEN Str(RefinedText(k))
                   ELSE Str(<<>>)
    /\ error' = IF outcome = "error" THEN Str(ErrorText(k)) ELSE error
    /\ isLoading' = FALSE
    /\ reqs' = [reqs EXCEPT ![k] = [@ EXCEPT !.phase = "done",
                                              !.outcome = outcome,
                                              !.wrote = TRUE]]
    /\ UNCHANGED <<elapsedTime, isCancelledRef, timerRef, intervals>>

settles(k, outcome) ==
    IF reqs[k].kind = "convert" THEN conversionSettles(k, outcome)
    ELSE refinementSettles(k, outcome)

\* The promise of fileToBase64 (lines 64-80) is resolved: the request goes on
\* to call the model, lines 386 and 402.
FileRead ==
    /\ pc = "app"
    /\ \E k \in 1..Len(reqs) :
          /\ reqs[k].phase = "reading"
          /\ reqs' = [reqs EXCEPT ![k] = [@ EXCEPT !.phase = "calling"]]
    /\ UNCHANGED <<pc, encVars, canonVars, urlVars, imageFile, isLoading, error,
                   elapsedTime, timerRef, isCancelledRef, fidelity,
                   selectedModel, intervals>>

\* The promise of fileToBase64 is rejected.
FileReadFails ==
    /\ pc = "app"
    /\ \E k \in 1..Len(reqs) :
          /\ reqs[k].phase = "reading"
          /\ settles(k, "error")
    /\ UNCHANGED <<pc, encVars, canonVars, failAt, call, imageFile, fidelity,
                   selectedModel>>

\* The promise of convertImageToSalt or refineSalt is settled: with a text,
\* with the empty text (response.text || ""), or with an error.
ModelReturns ==
    /\ pc = "app"
    /\ \E k \in 1..Len(reqs) :
          /\ reqs[k].phase = "calling"
          /\ \E outcome \in {"code", "empty", "error"} : settles(k, outcome)
    /\ UNCHANGED <<pc, encVars, canonVars, failAt, call, imageFile, fidelity,
                   selectedModel>>

\* The callback of an interval that has not been cleared, line 382.
Tick ==
    /\ pc = "app"
    /\ intervals # {}
    /\ elapsedTime < MaxElapsed
    /\ elapsedTime' = elapsedTime + 1
    /\ UNCHANGED <<pc, encVars, canonVars, urlVars, imageFile, isLoading, error,
                   timerRef, isCancelledRef, fidelity, selectedModel, intervals,
                   reqs>>

InitApp ==
    /\ pc = "app"
    /\ data = <<>>
    /\ r = <<>>
    /\ code = <<>>
    /\ cleanCode = <<>>
    /\ again = <<>>
    /\ UrlIdle
    /\ AppIdle

NextApp ==
    \/ HandlePaste
    \/ HandleDrop
    \/ OnRetry
    \/ OnCancel
    \/ OnFidelityChange
    \/ OnModelChange
    \/ HandleRefine
    \/ FileRead
    \/ FileReadFails
    \/ ModelReturns
    \/ Tick

SpecApp == InitApp /\ [][NextApp]_vars

(***************************************************************************)
(* C12.  Cancellation is final for the cancelled request: a conversion     *)
(* that was in flight when the user pressed cancel never stores its        *)
(* outcome, neither its code in saltCode nor its error in error, whatever  *)
(* the user does afterwards (retry, another image) before it returns.      *)
(***************************************************************************)
C12_CancelIsFinal ==
    \A k \in 1..Len(reqs) :
        reqs[k].kind = "convert" /\ reqs[k].cancelled => ~reqs[k].wrote

(***************************************************************************)
(* C13.  No stale result: when every request was a conversion, all of them *)
(* have returned and none was cancelled, the conversion started last is    *)
(* the one of the current imageFile, and what is shown is its outcome: its *)
(* code in saltCode with no error, or its error in error.                  *)
(***************************************************************************)
AllReturned == \A k \in 1..Len(reqs) : reqs[k].phase = "done"

NoneCancelled == \A k \in 1..Len(reqs) : ~reqs[k].cancelled

OnlyConversions == \A k \in 1..Len(reqs) : reqs[k].kind = "convert"

ShowsOutcomeOf(k) ==
    CASE reqs[k].outcome = "code"  -> saltCode = Str(<<64, 48 + k>>) /\ error = Null
      [] reqs[k].outcome = "empty" -> saltCode = Str(<<>>) /\ error = Null
      [] reqs[k].outcome = "error" -> error = Str(<<33, 48 + k>>)
      [] OTHER -> FALSE

C13_NoStaleResult ==
    Len(reqs) > 0 /\ OnlyConversions /\ AllReturned /\ NoneCancelled =>
        /\ reqs[Len(reqs)].image = imageFile
        /\ ShowsOutcomeOf(Len(reqs))

(***************************************************************************)
(* C14.  The loading flag tracks the request in flight: while a conversion *)
(* has not returned and cancel has not been pressed since it started,      *)
(* isLoading is true and the interval that timerRef holds is running.      *)
(***************************************************************************)
C14_LoadingTracksRequest ==
    \A k \in 1..Len(reqs) :
        reqs[k].kind = "convert" /\ reqs[k].phase # "done" /\ ~reqs[k].cancelled =>
            /\ isLoading
            /\ timerRef # 0
            /\ timerRef \in intervals

====
